---------------------------- MODULE Spec2Model ----------------------------
(***************************************************************************)
(* ConditionalBase<KEY> (gtsam/inference/ConditionalBase.h): a key         *)
(* sequence keys_ (inherited from FactorBase<KEY>) whose first nrFrontals_ *)
(* positions are frontal and whose remaining positions are parents, with   *)
(* its constructors, views, equals and the two permutation operations.     *)
(*                                                                         *)
(* Iterators are 0-based offsets into keys_ as in the C++ code; TLA+       *)
(* sequences are 1-based, so the key an iterator it refers to is           *)
(* keys_[it + 1].                                                          *)
(***************************************************************************)
EXTENDS Integers, Sequences, FiniteSets, TLC

VARIABLES
    NDEBUG,        \* the build: TRUE when assert() and the #ifndef NDEBUG blocks are compiled out
    keys_,         \* FactorBase::keys_ of the conditional
    nrFrontals_,   \* ConditionalBase::nrFrontals_
    status,        \* "none" (no object yet), "returned", "assert_failed", "crashed"
    op,            \* the last operation called ("none" before the constructor)
    argKey,        \* its argument key (single-frontal constructors)
    argKeys,       \* its argument parents / [firstParent, lastParent) / [firstKey, lastKey)
    argN,          \* its argument nrFrontals (FromRange)
    argPermutation, \* its argument inversePermutation (the permutation calls)
    pre,           \* keys_ and nrFrontals_ as they were when the last call started
    built,         \* length of keys_ and nrFrontals_ when the constructor returned
    ret,           \* value returned by the last bool-valued call
    roundTrip,     \* set when the last two calls were permuteWithInverse(M), permuteWithInverse(M^-1)
    other,         \* the argument c of equals
    tol            \* the argument tol of equals

args == <<argKey, argKeys, argN, argPermutation>>

vars == <<NDEBUG, keys_, nrFrontals_, status, op, args, pre, built, ret, roundTrip, other, tol>>

---------------------------------------------------------------------------
(* Bounds of the model *)

NumKeys == 3
MaxParents == 2
MaxRange == 3
EqNumKeys == 2
EqMaxLen == 2

(* size_t arithmetic wraps modulo 2^64 on the target.  TLC's integers are  *)
(* 32 bits wide, so the model wraps at 2^16: every length of the model is  *)
(* far below it, and a difference that would wrap at 2^64 wraps here too.  *)
SizeMod == 2^16

(* double tol = 1e-9, in units of 1e-9 *)
DefaultTol == 1

Key == 0 .. (NumKeys - 1)

SeqsUpTo(S, n) == UNION { [1..m -> S] : m \in 0..n }

(* Permutation: a bijection of the key domain, queried by indexing *)
Bijective(p) == \A a, b \in Key : p[a] = p[b] => a = b
Permutation == { q : q \in { p \in [Key -> Key] : Bijective(p) } }

Identity == [k \in Key |-> k]

(* q is the inverse of p *)
IsInverse(p, q) == \A k \in Key : q[p[k]] = k

---------------------------------------------------------------------------
(* Iterators and views *)

beginFrontals == 0
endFrontals == 0 + nrFrontals_
beginParents == 0 + nrFrontals_
endParents == Len(keys_)

nrFrontals == nrFrontals_
nrParents == (Len(keys_) - nrFrontals_) % SizeMod

(* boost::make_iterator_range(first, last) read as a sequence.  Reading it *)
(* is defined only when 0 <= first <= last <= Len(ks).                     *)
InRange(ks, first, last) == 0 <= first /\ first <= last /\ last <= Len(ks)
make_iterator_range(ks, first, last) == SubSeq(ks, first + 1, last)

frontals == make_iterator_range(keys_, beginFrontals, endFrontals)
parents == make_iterator_range(keys_, beginParents, endParents)

(* both views lie inside keys_ *)
ViewsInRange == InRange(keys_, beginFrontals, endFrontals) /\ InRange(keys_, beginParents, endParents)


---------------------------------------------------------------------------
(* FactorBase<KEY>: the base class that owns keys_.  Its header is not     *)
(* among the sources; these follow the documented behaviour: the           *)
(* constructors store their arguments in order, equals compares the key    *)
(* sequences exactly, permuteWithInverse relabels every key.               *)

FactorBase0 == << >>
FactorBase1(key) == <<key>>
FactorBase2(key1, key2) == <<key1, key2>>
FactorBase3(key1, key2, key3) == <<key1, key2, key3>>
FactorBase4(key1, key2, key3, key4) == <<key1, key2, key3, key4>>

FactorBase_equals(ks, cks, t) == ks = cks

FactorBase_permuteWithInverse(ks, inversePermutation) == [i \in 1..Len(ks) |-> inversePermutation[ks[i]]]

---------------------------------------------------------------------------
(* std::vector and std::copy as the constructors use them *)

(* keys_.resize(n): the keys kept, then value-initialised keys (Key() is 0) *)
resize(ks, n) == [i \in 1..n |-> IF i <= Len(ks) THEN ks[i] ELSE 0]

(* *it = v for the iterator at offset it *)
assign(ks, it, v) == [ks EXCEPT ![it + 1] = v]

(* std::copy(src.begin(), src.end(), it) for the iterator at offset it *)
copy(src, ks, it) == [i \in 1..Len(ks) |-> IF it < i /\ i <= it + Len(src) THEN src[i - it] ELSE ks[i]]

(* std::copy(src.begin(), src.end(), back_inserter(ks)) *)
copy_back_inserter(src, ks) == ks \o src

---------------------------------------------------------------------------
(* Constructors and named constructors: the object each one builds *)

Object(ks, nf) == [keys_ |-> ks, nrFrontals_ |-> nf]

(* ConditionalBase() : nrFrontals_(0) {} *)
ConditionalBase0 == Object(FactorBase0, 0)

(* ConditionalBase(Key key) : FactorType(key), nrFrontals_(1) {} *)
ConditionalBase1(key) == Object(FactorBase1(key), 1)

(* ConditionalBase(Key key, Key parent) *)
ConditionalBase2(key, parent) == Object(FactorBase2(key, parent), 1)

(* ConditionalBase(Key key, Key parent1, Key parent2) *)
ConditionalBase3(key, parent1, parent2) == Object(FactorBase3(key, parent1, parent2), 1)

(* ConditionalBase(Key key, Key parent1, Key parent2, Key parent3) *)
ConditionalBase4(key, parent1, parent2, parent3) == Object(FactorBase4(key, parent1, parent2, parent3), 1)

(* variant: the parents are copied to beginFrontals() *)
ConditionalBaseVector_copyToFrontals(key, parentsArg) ==
    LET nf == 1
        k1 == resize(FactorBase0, 1 + Len(parentsArg))
        k2 == assign(k1, 0, key)
        k3 == copy(parentsArg, k2, 0)
    IN  Object(k3, nf)

(* ConditionalBase(Key key, const std::vector<Key>& parents) : nrFrontals_(1) *)
ConditionalBaseVector(key, parentsArg) ==
    LET nf == 1
        k1 == resize(FactorBase0, 1 + Len(parentsArg))
        k2 == assign(k1, 0, key)                     \* *(beginFrontals()) = key
        k3 == copy(parentsArg, k2, 0 + nf)           \* copy to beginParents()
    IN  Object(k3, nf)

(* FromRange(Key key, ITERATOR firstParent, ITERATOR lastParent) *)
FromRangeKeyParents(key, parentsArg) ==
    LET c0 == ConditionalBase0                       \* new DERIVED
        nf == 1
        k1 == Append(c0.keys_, key)                  \* keys_.push_back(key)
        k2 == copy_back_inserter(parentsArg, k1)
    IN  Object(k2, nf)

(* variant: nrFrontals_ = 1 as in the single-frontal FromRange *)
FromRange_oneFrontal(range, n) ==
    LET c0 == ConditionalBase0
        nf == 1
        k1 == copy_back_inserter(range, c0.keys_)
    IN  Object(k1, nf)

(* FromRange(ITERATOR firstKey, ITERATOR lastKey, size_t nrFrontals) *)
FromRange(range, n) ==
    LET c0 == ConditionalBase0                       \* new DERIVED
        nf == n
        k1 == copy_back_inserter(range, c0.keys_)
    IN  Object(k1, nf)

---------------------------------------------------------------------------
(* equals *)

(* variant: nrFrontals_ is not compared *)
equals_keysOnly(ks, nf, c, t) == FactorBase_equals(ks, c.keys_, t)

(* nrFrontals_ == c.nrFrontals_ && FactorType::equals(c, tol) *)
equals(ks, nf, c, t) == nf = c.nrFrontals_ /\ FactorBase_equals(ks, c.keys_, t)

---------------------------------------------------------------------------
(* The permutation operations.  Each yields the set of outcomes the call   *)
(* can have: how it ends, the object it leaves, and the value it returns.  *)
(* A call that reads or writes outside keys_ (a view that is not in range) *)
(* has undefined behaviour: it ends in a failed assertion on the garbage   *)
(* it read or in a crash, and never returns.                               *)

Outcome(st, ks, nf, r) == [status |-> st, keys_ |-> ks, nrFrontals_ |-> nf, ret |-> r]

(* offsets of the frontal and parent positions that lie inside keys_ *)
FrontalOffsets(ks, nf) == { it \in 0 .. (Len(ks) - 1) : it < nf }
ParentOffsets(ks, nf) == { it \in 0 .. (Len(ks) - 1) : it >= nf }

(* variant: parentChanged = (parent != newParent), overwritten by every parent *)
RECURSIVE PermuteParentsLoop_lastOnly(_, _, _, _, _)
PermuteParentsLoop_lastOnly(ks, it, last, inversePermutation, parentChanged) ==
    IF it = last
    THEN [keys_ |-> ks, parentChanged |-> parentChanged]
    ELSE LET parent == ks[it + 1]
             newParent == inversePermutation[parent]
         IN  IF parent # newParent
             THEN PermuteParentsLoop_lastOnly(assign(ks, it, newParent), it + 1, last, inversePermutation, TRUE)
             ELSE PermuteParentsLoop_lastOnly(ks, it + 1, last, inversePermutation, FALSE)

(* BOOST_FOREACH(Key& parent, parents()) { ... } from iterator it to last *)
RECURSIVE PermuteParentsLoop(_, _, _, _, _)
PermuteParentsLoop(ks, it, last, inversePermutation, parentChanged) ==
    IF it = last
    THEN [keys_ |-> ks, parentChanged |-> parentChanged]
    ELSE LET parent == ks[it + 1]
             newParent == inversePermutation[parent]
         IN  IF parent # newParent
             THEN PermuteParentsLoop(assign(ks, it, newParent), it + 1, last, inversePermutation, TRUE)
             ELSE PermuteParentsLoop(ks, it + 1, last, inversePermutation, parentChanged)

(* variant: the new label of the i-th parent is stored at keys_[i], not at parents()[i] *)
PermuteSeparatorBody_viewIndex(ks, nf, inversePermutation) ==
    IF InRange(ks, nf, Len(ks))
    THEN LET r == FactorBase_permuteWithInverse(ks, inversePermutation)
             changed == \E i \in 1..Len(ks) : i > nf /\ r[i] # ks[i]
         IN  { Outcome("returned", [i \in 1..Len(ks) |-> IF i + nf <= Len(ks) THEN r[i + nf] ELSE ks[i]], nf, changed) }
    ELSE { Outcome("crashed", ks, nf, FALSE) }

(* variant: the new labels are appended with push_back instead of stored in place *)
PermuteSeparatorBody_pushBack(ks, nf, inversePermutation) ==
    IF InRange(ks, nf, Len(ks))
    THEN LET r == FactorBase_permuteWithInverse(ks, inversePermutation)
             changed == \E i \in 1..Len(ks) : i > nf /\ r[i] # ks[i]
         IN  { Outcome("returned", ks \o SubSeq(r, nf + 1, Len(ks)), nf, changed) }
    ELSE { Outcome("crashed", ks, nf, FALSE) }

(* the body of permuteSeparatorWithInverse after the debug block *)
PermuteSeparatorBody(ks, nf, inversePermutation) ==
    IF InRange(ks, nf, Len(ks))
    THEN LET r == PermuteParentsLoop(ks, nf, Len(ks), inversePermutation, FALSE)
         IN  { Outcome("returned", r.keys_, nf, r.parentChanged) }
    ELSE { Outcome("crashed", ks, nf, FALSE) }

(* variant: the frontal keys are checked after the parents were relabelled *)
permuteSeparatorWithInverse_checkLast(ks, nf, inversePermutation, ndebug) ==
    IF ndebug \/ ~InRange(ks, 0, nf)
    THEN PermuteSeparatorBody(ks, nf, inversePermutation)
    ELSE IF \E it \in FrontalOffsets(ks, nf) : ks[it + 1] # inversePermutation[ks[it + 1]]
         THEN { Outcome("assert_failed", o.keys_, nf, FALSE) : o \in PermuteSeparatorBody(ks, nf, inversePermutation) }
         ELSE PermuteSeparatorBody(ks, nf, inversePermutation)

(* bool permuteSeparatorWithInverse(const Permutation& inversePermutation) *)
permuteSeparatorWithInverse(ks, nf, inversePermutation, ndebug) ==
    IF ndebug
    THEN PermuteSeparatorBody(ks, nf, inversePermutation)
    ELSE \* BOOST_FOREACH(Key key, frontals()) { assert(key == inversePermutation[key]); }
         IF \E it \in FrontalOffsets(ks, nf) : ks[it + 1] # inversePermutation[ks[it + 1]]
         THEN { Outcome("assert_failed", ks, nf, FALSE) }
         ELSE IF ~InRange(ks, 0, nf)
              THEN { Outcome("assert_failed", ks, nf, FALSE), Outcome("crashed", ks, nf, FALSE) }
              ELSE PermuteSeparatorBody(ks, nf, inversePermutation)

(* variant: the permutation is indexed by the position of the key, not by the key *)
permuteWithInverse_byPosition(ks, nf, inversePermutation, ndebug) ==
    { Outcome("returned", [i \in 1..Len(ks) |-> IF (i - 1) \in Key THEN inversePermutation[i - 1] ELSE ks[i]], nf, FALSE) }

(* void permuteWithInverse(const Permutation& inversePermutation) *)
permuteWithInverse(ks, nf, inversePermutation, ndebug) ==
    LET done == { Outcome("returned", FactorBase_permuteWithInverse(ks, inversePermutation), nf, FALSE) }
    IN  IF ndebug
        THEN done
        ELSE \* assert(inversePermutation[frontal] < inversePermutation[separator]) for every pair
             IF ~(InRange(ks, 0, nf) /\ InRange(ks, nf, Len(ks)))
             THEN { Outcome("assert_failed", ks, nf, FALSE), Outcome("crashed", ks, nf, FALSE) }
             ELSE IF \E f \in FrontalOffsets(ks, nf), p \in ParentOffsets(ks, nf) :
                         ~(inversePermutation[ks[f + 1]] < inversePermutation[ks[p + 1]])
                  THEN { Outcome("assert_failed", ks, nf, FALSE) }
                  ELSE done

---------------------------------------------------------------------------
(* The state machine: constructed -> permuted (0..n times) *)

NoObject == Object(<< >>, 0)
NotBuilt == [len |-> 0, nrFrontals_ |-> 0]
NoRoundTrip == [active |-> FALSE, keys_ |-> << >>, nrFrontals_ |-> 0]

Init ==
    /\ NDEBUG \in BOOLEAN
    /\ keys_ = << >>
    /\ nrFrontals_ = 0
    /\ status = "none"
    /\ op = "none"
    /\ argKey = 0
    /\ argKeys = << >>
    /\ argN = 0
    /\ argPermutation = Identity
    /\ pre = NoObject
    /\ built = NotBuilt
    /\ ret = FALSE
    /\ roundTrip = NoRoundTrip
    /\ other = NoObject
    /\ tol = DefaultTol

(* a constructor called with (key, ks, n) returns object c *)
Construct(name, key, ks, n, c) ==
    /\ keys_' = c.keys_
    /\ nrFrontals_' = c.nrFrontals_
    /\ status' = "returned"
    /\ op' = name
    /\ argKey' = key
    /\ argKeys' = ks
    /\ argN' = n
    /\ built' = [len |-> Len(c.keys_), nrFrontals_ |-> c.nrFrontals_]
    /\ UNCHANGED <<NDEBUG, argPermutation, pre, ret, roundTrip, other, tol>>

New0 ==
    /\ status = "none"
    /\ Construct("ConditionalBase0", 0, << >>, 0, ConditionalBase0)

New1 ==
    /\ status = "none"
    /\ \E key \in Key :
        Construct("ConditionalBase1", key, << >>, 0, ConditionalBase1(key))

New2 ==
    /\ status = "none"
    /\ \E key, parent \in Key :
        Construct("ConditionalBase2", key, <<parent>>, 0, ConditionalBase2(key, parent))

New3 ==
    /\ status = "none"
    /\ \E key, parent1, parent2 \in Key :
        Construct("ConditionalBase3", key, <<parent1, parent2>>, 0,
                  ConditionalBase3(key, parent1, parent2))

New4 ==
    /\ status = "none"
    /\ \E key, parent1, parent2, parent3 \in Key :
        Construct("ConditionalBase4", key, <<parent1, parent2, parent3>>, 0,
                  ConditionalBase4(key, parent1, parent2, parent3))

NewVector ==
    /\ status = "none"
    /\ \E key \in Key, ps \in SeqsUpTo(Key, MaxParents) :
        Construct("ConditionalBaseVector", key, ps, 0, ConditionalBaseVector(key, ps))

NewFromRangeKeyParents ==
    /\ status = "none"
    /\ \E key \in Key, ps \in SeqsUpTo(Key, MaxParents) :
        Construct("FromRangeKeyParents", key, ps, 0, FromRangeKeyParents(key, ps))

NewFromRange ==
    /\ status = "none"
    /\ \E range \in SeqsUpTo(Key, MaxRange), n \in 0 .. (MaxRange + 1) :
        Construct("FromRange", 0, range, n, FromRange(range, n))

(* one outcome o of the permutation call name(inv) *)
Permuted(name, inv, o, rt) ==
    /\ keys_' = o.keys_
    /\ nrFrontals_' = o.nrFrontals_
    /\ status' = o.status
    /\ ret' = o.ret
    /\ op' = name
    /\ argKey' = 0
    /\ argKeys' = << >>
    /\ argN' = 0
    /\ argPermutation' = inv
    /\ pre' = Object(keys_, nrFrontals_)
    /\ roundTrip' = rt
    /\ UNCHANGED <<NDEBUG, built, other, tol>>

Call_permuteSeparatorWithInverse ==
    /\ status = "returned"
    /\ \E inv \in Permutation :
         \E o \in permuteSeparatorWithInverse(keys_, nrFrontals_, inv, NDEBUG) :
            Permuted("permuteSeparatorWithInverse", inv, o, NoRoundTrip)

(* the call closes a round trip when the previous call was a returned      *)
(* permuteWithInverse(M) and this one returns from permuteWithInverse with *)
(* the inverse of M; roundTrip then keeps the object as it was before M    *)
ClosesRoundTrip(o, inv) ==
    /\ o.status = "returned"
    /\ status = "returned"
    /\ op = "permuteWithInverse"
    /\ IsInverse(argPermutation, inv)

Call_permuteWithInverse ==
    /\ status = "returned"
    /\ \E inv \in Permutation :
         \E o \in permuteWithInverse(keys_, nrFrontals_, inv, NDEBUG) :
            Permuted("permuteWithInverse", inv, o,
                     IF ClosesRoundTrip(o, inv)
                     THEN [active |-> TRUE, keys_ |-> pre.keys_, nrFrontals_ |-> pre.nrFrontals_]
                     ELSE NoRoundTrip)

Next ==
    \/ New0
    \/ New1
    \/ New2
    \/ New3
    \/ New4
    \/ NewVector
    \/ NewFromRangeKeyParents
    \/ NewFromRange
    \/ Call_permuteSeparatorWithInverse
    \/ Call_permuteWithInverse

Spec == Init /\ [][Next]_vars

---------------------------------------------------------------------------
(* equals as a function of two conditionals and a tolerance *)

Tolerances == {0, DefaultTol, 2 * DefaultTol}

EqKey == 0 .. (EqNumKeys - 1)

(* every (keys_, nrFrontals_) below is what FromRange(range, n) builds *)
EqObjects == { FromRange(range, n) : range \in SeqsUpTo(EqKey, EqMaxLen), n \in 0 .. EqMaxLen }

InitEquals ==
    /\ NDEBUG \in BOOLEAN
    /\ \E c \in EqObjects : keys_ = c.keys_ /\ nrFrontals_ = c.nrFrontals_
    /\ other \in EqObjects
    /\ status = "returned"
    /\ op = "FromRange"
    /\ argKey = 0
    /\ argKeys = keys_
    /\ argN = nrFrontals_
    /\ argPermutation = Identity
    /\ pre = NoObject
    /\ built = [len |-> Len(keys_), nrFrontals_ |-> nrFrontals_]
    /\ ret = FALSE
    /\ roundTrip = NoRoundTrip
    /\ tol = DefaultTol

Call_equals ==
    /\ status = "returned"
    /\ \E t \in Tolerances :
        /\ tol' = t
        /\ ret' = equals(keys_, nrFrontals_, other, t)
        /\ op' = "equals"
        /\ argKey' = 0
        /\ argKeys' = << >>
        /\ argN' = 0
        /\ pre' = Object(keys_, nrFrontals_)
        /\ UNCHANGED <<NDEBUG, keys_, nrFrontals_, status, argPermutation, built, roundTrip, other>>

NextEquals == Call_equals

SpecEquals == InitEquals /\ [][NextEquals]_vars

---------------------------------------------------------------------------
(* Properties *)

PermuteOps == {"permuteSeparatorWithInverse", "permuteWithInverse"}

SingleFrontalOps == {"ConditionalBase1", "ConditionalBase2", "ConditionalBase3", "ConditionalBase4",
                     "ConditionalBaseVector", "FromRangeKeyParents"}

(* the object the last call started from, and its in-range frontal and parent offsets *)
PreFrontals == FrontalOffsets(pre.keys_, pre.nrFrontals_)
PreParents == ParentOffsets(pre.keys_, pre.nrFrontals_)
PreKey(it) == pre.keys_[it + 1]
NewLabel(it) == argPermutation[pre.keys_[it + 1]]

(* the conditional satisfied the elimination ordering when the call started *)
PreOrdered == \A f \in PreFrontals, p \in PreParents : PreKey(f) < PreKey(p)

(* C1: in every state of a constructed Conditional nrFrontals <= len(keys), so *)
(* nrParents() = len(keys) - nrFrontals does not wrap around.                  *)
C1_LengthInvariant ==
    status # "none" =>
        /\ nrFrontals <= Len(keys_)
        /\ nrParents = Len(keys_) - nrFrontals

(* C2: after a permutation operation that completes with the debug checks      *)
(* enabled, every frontal key is strictly less than every parent key.  Stated  *)
(* here for conditionals that satisfied the ordering before the call, which    *)
(* the claim includes.                                                         *)
C2_EliminationOrdering ==
    (op \in PermuteOps /\ ~NDEBUG /\ status = "returned" /\ PreOrdered) =>
        \A f \in FrontalOffsets(keys_, nrFrontals_), p \in ParentOffsets(keys_, nrFrontals_) :
            keys_[f + 1] < keys_[p + 1]

(* C3: permuteSeparatorWithInverse(inv) returns true iff some parent key p of  *)
(* the pre-call conditional has inv[p] # p; it returns false when there are no *)
(* parents and for the identity; afterwards parent position i holds            *)
(* inv[old parent i].                                                          *)
C3_SeparatorReturnValue ==
    (op = "permuteSeparatorWithInverse" /\ status = "returned") =>
        /\ ret = (\E p \in PreParents : NewLabel(p) # PreKey(p))
        /\ (PreParents = {} => ret = FALSE)
        /\ (argPermutation = Identity => ret = FALSE)
        /\ Len(keys_) = Len(pre.keys_)
        /\ \A p \in PreParents : keys_[p + 1] = NewLabel(p)

C3_Witness ==
    /\ op = "permuteSeparatorWithInverse"
    /\ status = "returned"
    /\ ~NDEBUG
    /\ ret = TRUE
    /\ pre.nrFrontals_ = 1
    /\ Len(pre.keys_) = 4
    /\ \E p, q \in PreParents : NewLabel(p) # PreKey(p) /\ NewLabel(q) = PreKey(q)

(* C4: when every frontal key is a fixed point of the permutation,             *)
(* permuteSeparatorWithInverse leaves frontals() unchanged: same keys, same    *)
(* order, same count.                                                          *)
C4_FrontalsUnchanged ==
    (/\ op = "permuteSeparatorWithInverse"
     /\ status = "returned"
     /\ \A f \in PreFrontals : NewLabel(f) = PreKey(f)) =>
        /\ nrFrontals = pre.nrFrontals_
        /\ ViewsInRange
        /\ InRange(pre.keys_, 0, pre.nrFrontals_)
        /\ frontals = make_iterator_range(pre.keys_, 0, pre.nrFrontals_)

C4_Witness ==
    /\ op = "permuteSeparatorWithInverse"
    /\ status = "returned"
    /\ ret = TRUE
    /\ nrFrontals >= 1
    /\ Len(keys_) = 3
    /\ \A i, j \in 1..3 : i # j => pre.keys_[i] # pre.keys_[j]
    /\ \A f \in PreFrontals : NewLabel(f) = PreKey(f)

(* C5: permuteWithInverse with M followed by permuteWithInverse with the       *)
(* inverse of M restores the key sequence and nrFrontals.                      *)
C5_RoundTrip ==
    roundTrip.active =>
        /\ keys_ = roundTrip.keys_
        /\ nrFrontals_ = roundTrip.nrFrontals_

C5_Witness ==
    /\ roundTrip.active
    /\ ~NDEBUG
    /\ ~IsInverse(argPermutation, argPermutation)
    /\ Len(keys_) >= 2
    /\ nrFrontals_ >= 1
    /\ \A i \in 1..Len(keys_) : pre.keys_[i] # keys_[i]

(* C6: a Conditional built from one frontal key f and parents [p1..pk] by any  *)
(* single-frontal form has nrFrontals() = 1, nrParents() = k, frontals() = [f] *)
(* and parents() = [p1..pk] in the supplied order.                             *)
C6_SingleFrontal ==
    op \in SingleFrontalOps =>
        /\ nrFrontals = 1
        /\ nrParents = Len(argKeys)
        /\ ViewsInRange
        /\ frontals = <<argKey>>
        /\ parents = argKeys

C6_Witness ==
    /\ op = "ConditionalBaseVector"
    /\ Len(argKeys) = 2
    /\ argKeys[1] > argKeys[2]
    /\ argKey # argKeys[1]
    /\ argKey # argKeys[2]

(* C7: FromRange(firstKey, lastKey, n) over the supplied keys gives            *)
(* nrFrontals() = n, frontals() = the first n supplied keys and parents() =    *)
(* the remaining supplied keys, in the supplied order.                         *)
C7_FromRange ==
    op = "FromRange" =>
        /\ nrFrontals = argN
        /\ argN <= Len(argKeys) =>
            /\ ViewsInRange
            /\ frontals = SubSeq(argKeys, 1, argN)
            /\ parents = SubSeq(argKeys, argN + 1, Len(argKeys))

C7_Witness ==
    /\ op = "FromRange"
    /\ argN = 2
    /\ Len(argKeys) = 3
    /\ argKeys[1] > argKeys[2]
    /\ argKeys[2] > argKeys[3]

(* C8: equals(other, tol) is true iff nrFrontals match and the key sequences   *)
(* have the same length and the same key at every position, whatever tol is.   *)
C8_Equals ==
    op = "equals" =>
        ret = (/\ nrFrontals_ = other.nrFrontals_
               /\ Len(keys_) = Len(other.keys_)
               /\ \A i \in 1..Len(keys_) : keys_[i] = other.keys_[i])

C8_Witness ==
    /\ op = "equals"
    /\ ret = FALSE
    /\ tol # DefaultTol
    /\ Len(keys_) = 2
    /\ keys_ = other.keys_
    /\ nrFrontals_ # other.nrFrontals_

(* C9: with the debug checks enabled a permutation call whose precondition is  *)
(* violated fails its assertion before any key is modified.                    *)
C9_AssertBeforeModify ==
    (/\ ~NDEBUG
     /\ \/ /\ op = "permuteSeparatorWithInverse"
           /\ \E f \in PreFrontals : NewLabel(f) # PreKey(f)
        \/ /\ op = "permuteWithInverse"
           /\ \E f \in PreFrontals, p \in PreParents : NewLabel(f) >= NewLabel(p)) =>
        /\ status = "assert_failed"
        /\ keys_ = pre.keys_
        /\ nrFrontals_ = pre.nrFrontals_

C9_Witness ==
    /\ ~NDEBUG
    /\ op = "permuteSeparatorWithInverse"
    /\ status = "assert_failed"
    /\ \E f \in PreFrontals : NewLabel(f) # PreKey(f)
    /\ \E p \in PreParents : NewLabel(p) # PreKey(p)

(* C10: the frontal/parent split is positional and fixed at construction: any  *)
(* sequence of permutation calls leaves nrFrontals() and the length of the key *)
(* sequence unchanged, and rewrites a key only to inv[old key at its position] *)
C10_PositionalSplit ==
    status \in {"returned", "assert_failed"} =>
        /\ nrFrontals = built.nrFrontals_
        /\ Len(keys_) = built.len
        /\ nrParents = (built.len - built.nrFrontals_) % SizeMod
        /\ op \in PermuteOps =>
            /\ Len(keys_) = Len(pre.keys_)
            /\ nrFrontals_ = pre.nrFrontals_
            /\ \A i \in 1..Len(keys_) :
                keys_[i] = IF /\ status = "returned"
                              /\ (op = "permuteWithInverse" \/ i > nrFrontals_)
                           THEN argPermutation[pre.keys_[i]]
                           ELSE pre.keys_[i]

C10_Witness ==
    /\ roundTrip.active
    /\ op = "permuteWithInverse"
    /\ Len(keys_) = 4
    /\ keys_ # pre.keys_
    /\ built.len = 4
    /\ built.nrFrontals_ = 1

=============================================================================
